---- MODULE Spec2Model ----
(***************************************************************************)
(* Pricing calculator of 8Creatives/pixel-price-architect.                 *)
(*                                                                         *)
(* The current calculator is the first component of                        *)
(* src/src/components/PricingCalculator.tsx; the reduced-bundle-base       *)
(* variant is the second component of src/unnamed/part_001.                *)
(*                                                                         *)
(* Numbers.  JavaScript numbers are modelled exactly as scaled integers:   *)
(*   a count  c  is held as c * CountScale   (one decimal digit),          *)
(*   hours    h  are held as h * HourScale   (weights down to eighths),    *)
(*   money    p  is  held as p * PriceScale  (hours * rate * 1.1).         *)
(* A text field is a sequence of one-character strings, so that            *)
(* Number(...) and trim() are computed from the characters.                *)
(***************************************************************************)
EXTENDS Integers, Sequences, FiniteSets, TLC

VARIABLES data, result, currentStep, showResults, progress, calls, bandData, bandResult

vars == <<data, result, currentStep, showResults, progress, calls, bandData, bandResult>>

(***************************************************************************)
(* Bounds of the model.                                                    *)
(***************************************************************************)
\* largest whole number typed into a count field
MaxCount == 12
\* largest number of form fields that differ from their initial value
MaxEdited == 2
\* largest number of answers given in a banded variant
MaxAnswers == 3
\* largest whole number typed into a count field of the wizard
MaxTyped == 1
\* largest number of renders of the result view
MaxCalls == 2
\* largest number of answers given in step 2 of a banded wizard
MaxBandAnswers == 3
\* largest number of basic reels of a video request
MaxBasic == 24
\* largest number of mid-level, and of advanced, reels of a video request
MaxReels == 2

(***************************************************************************)
(* Scales of the fixed-point representation.                               *)
(***************************************************************************)
DigitChar == <<"0", "1", "2", "3", "4", "5", "6", "7", "8", "9">>

\* one decimal digit of a count is kept
CountScale == Len(DigitChar)
\* the hour weights have halves, quarters and eighths
HourScale == CountScale * 4
\* hours times a whole rate, times 1.1
PriceScale == HourScale * 10

Dollars(n) == n * PriceScale
Hours(n) == n * HourScale
(***************************************************************************)
(* Text of number inputs and Number(text).                                 *)
(***************************************************************************)

DigitValue(c) == (CHOOSE i \in 1..10 : DigitChar[i] = c) - 1

RECURSIVE DigitsValue(_)
DigitsValue(s) ==
    IF s = <<>> THEN 0
    ELSE DigitsValue(SubSeq(s, 1, Len(s) - 1)) * 10 + DigitValue(s[Len(s)])

\* position of the decimal point, or Len(s) + 1 when there is none
PointAt(s) ==
    IF \E i \in 1..Len(s) : s[i] = "."
    THEN CHOOSE i \in 1..Len(s) : s[i] = "."
    ELSE Len(s) + 1

\* Number(text) of a non-empty numeric text, times CountScale
ParseNumber(s) ==
    LET neg == s[1] = "-"
        body == IF neg THEN Tail(s) ELSE s
        p == PointAt(body)
        whole == DigitsValue(SubSeq(body, 1, p - 1))
        frac == IF p < Len(body) THEN DigitValue(body[p + 1]) ELSE 0
        mag == whole * CountScale + frac
    IN IF neg THEN 0 - mag ELSE mag

\* Number(text || 0): the empty text is falsy and yields 0
NumberOr0(s) == IF s = <<>> THEN 0 ELSE ParseNumber(s)

RECURSIVE NatText(_)
NatText(n) ==
    IF n < 10 THEN <<DigitChar[n + 1]>>
    ELSE NatText(n \div 10) \o <<DigitChar[(n % 10) + 1]>>

\* the text a number input shows for the number x / CountScale
NumberText(x) ==
    LET mag == IF x < 0 THEN 0 - x ELSE x
        txt == NatText(mag \div CountScale) \o
               (IF mag % CountScale = 0 THEN <<>>
                ELSE <<".", DigitChar[(mag % CountScale) + 1]>>)
    IN IF x < 0 THEN <<"-">> \o txt ELSE txt

\* text.trim().length
RECURSIVE TrimLength(_)
TrimLength(s) ==
    IF s = <<>> THEN 0
    ELSE IF Head(s) = " " THEN TrimLength(Tail(s))
    ELSE IF s[Len(s)] = " " THEN TrimLength(SubSeq(s, 1, Len(s) - 1))
    ELSE Len(s)

\* the amount left unrounded
MathRoundMissing(x) == x

\* Math.floor in the place of Math.round
MathFloor(x) == (x \div PriceScale) * PriceScale

\* Math.round of a money amount held times PriceScale (ties go up)
MathRound(x) == ((x + (PriceScale \div 2)) \div PriceScale) * PriceScale

(***************************************************************************)
(* Current calculator: form data and result.                               *)
(***************************************************************************)
ServiceTypes == {"", "graphic", "video", "both"}

CountFields == {"smDesigns", "banners", "brochures", "illustrations", "packaging",
                "videoBasic", "videoMid", "videoAdvanced"}

FlagFields == {"bilingual", "videoSubtitles", "videoNeedsStock", "videoNeedsScripting"}

ContactFields == {"name", "company", "email", "phone"}

\* useState<PricingData>({...})
InitialData ==
    [serviceType |-> "",
     smDesigns |-> <<"0">>, banners |-> <<"0">>, brochures |-> <<"0">>,
     illustrations |-> <<"0">>, packaging |-> <<"0">>,
     otherDesignType |-> <<>>,
     bilingual |-> FALSE,
     videoBasic |-> <<"0">>, videoMid |-> <<"0">>, videoAdvanced |-> <<"0">>,
     videoSubtitles |-> FALSE, videoNeedsStock |-> FALSE, videoNeedsScripting |-> FALSE,
     name |-> "", company |-> "", email |-> "", phone |-> ""]

\* the result object kept between calls
NewResultReused ==
    IF result.monthlyPrice >= 0 THEN result
    ELSE [monthlyPrice |-> 0,
          breakdown |-> [basePrice |-> 0, volumeAdjustment |-> 0,
                         complexityAdjustment |-> 0, bilingualBonus |-> 0, addOns |-> 0],
          includes |-> <<>>,
          estimatedHours |-> 0]

\* let result: PricingResult = {...}
NewResult ==
    [monthlyPrice |-> 0,
     breakdown |-> [basePrice |-> 0, volumeAdjustment |-> 0, complexityAdjustment |-> 0,
                    bilingualBonus |-> 0, addOns |-> 0],
     includes |-> <<>>,
     estimatedHours |-> 0]

\* no call of calculatePricing has returned yet
NoResult == [monthlyPrice |-> -1]

\* an entry of includes: its text and the number interpolated in it (0 if none)
Entry(text) == [text |-> text, n |-> 0]
EntryN(text, n) == [text |-> text, n |-> n]

Push(r, e) == [r EXCEPT !.includes = Append(@, e)]

\* an hour weight given in tenths of an hour (Weight(15) is 1.5 hours an item):
\* a count times CountScale, times the weight, is hours times HourScale
Weight(tenths) == (tenths * HourScale) \div (CountScale * 10)

getGraphicTotals(d) ==
    LET sm == NumberOr0(d.smDesigns)
        banners == NumberOr0(d.banners)
        brochures == NumberOr0(d.brochures)
        illustrations == NumberOr0(d.illustrations)
        packaging == NumberOr0(d.packaging)
    IN [totalCount |-> sm + banners + brochures + illustrations + packaging,
        totalHours |-> sm * Weight(10) + banners * Weight(15) + brochures * Weight(50)
                       + illustrations * Weight(30) + packaging * Weight(50)]

\* the extra hours taken off the price
HoursAtRateSubtracted(extraHours, rate) ==
    0 - extraHours * rate * (PriceScale \div HourScale)

\* price of extraHours (times HourScale) at rate dollars an hour, times PriceScale
HoursAtRate(extraHours, rate) == extraHours * rate * (PriceScale \div HourScale)

\* the hours of the reels counted among the design hours
computeGraphicPricingWithReels(d) ==
    LET totalHours == getGraphicTotals(d).totalHours
                      + NumberOr0(d.videoBasic) * Weight(25)
                      + NumberOr0(d.videoMid) * Weight(50)
                      + NumberOr0(d.videoAdvanced) * Weight(110)
        Base_Price == Dollars(499)
        Base_Hours == Hours(55)
        Extra_Hourly_Rate == 9
        withExtra == IF totalHours > Base_Hours
                     THEN Base_Price + HoursAtRate(totalHours - Base_Hours, Extra_Hourly_Rate)
                     ELSE Base_Price
        finalPrice == IF d.bilingual THEN (withExtra * 11) \div 10 ELSE withExtra
    IN [price |-> MathRound(finalPrice), hours |-> totalHours]

\* the surcharge taken on the base price alone
computeGraphicPricingBaseOnly(d) ==
    LET totalHours == getGraphicTotals(d).totalHours
        Base_Price == Dollars(499)
        Base_Hours == Hours(55)
        Extra_Hourly_Rate == 9
        withExtra == IF totalHours > Base_Hours
                     THEN Base_Price + HoursAtRate(totalHours - Base_Hours, Extra_Hourly_Rate)
                     ELSE Base_Price
        finalPrice == IF d.bilingual THEN withExtra + (Base_Price \div 10) ELSE withExtra
    IN [price |-> MathRound(finalPrice), hours |-> totalHours]

computeGraphicPricing(d) ==
    LET totalHours == getGraphicTotals(d).totalHours
        Base_Price == Dollars(499)
        Base_Hours == Hours(55)
        Extra_Hourly_Rate == 9
        withExtra == IF totalHours > Base_Hours
                     THEN Base_Price + HoursAtRate(totalHours - Base_Hours, Extra_Hourly_Rate)
                     ELSE Base_Price
        finalPrice == IF d.bilingual THEN (withExtra * 11) \div 10 ELSE withExtra
    IN [price |-> MathRound(finalPrice), hours |-> totalHours]

\* Number(videoBasic || 0) + Number(videoMid || 0) + Number(videoAdvanced || 0)
TotalVideos(d) ==
    NumberOr0(d.videoBasic) + NumberOr0(d.videoMid) + NumberOr0(d.videoAdvanced)

\* a basic reel weighted like a mid-level one
computeVideoPricingBasicAsMid(d) ==
    LET basic == NumberOr0(d.videoBasic)
        mid == NumberOr0(d.videoMid)
        adv == NumberOr0(d.videoAdvanced)
        basePrice == Dollars(699)
        baseHours == Hours(55)
        extraRate == 12
        totalVideos == basic + mid + adv
        totalHours == basic * Weight(50) + mid * Weight(50) + adv * Weight(110)
                      + (IF d.videoNeedsScripting THEN totalVideos * Weight(10) ELSE 0)
                      + (IF d.videoNeedsStock THEN totalVideos * Weight(5) ELSE 0)
        finalPrice == IF totalHours > baseHours
                      THEN basePrice + HoursAtRate(totalHours - baseHours, extraRate)
                      ELSE basePrice
    IN [price |-> MathRound(finalPrice), hours |-> totalHours]

\* stock footage charged as a flat fee of 75 on top of its hours
computeVideoPricingFlatStock(d) ==
    LET basic == NumberOr0(d.videoBasic)
        mid == NumberOr0(d.videoMid)
        adv == NumberOr0(d.videoAdvanced)
        basePrice == Dollars(699)
        baseHours == Hours(55)
        extraRate == 12
        totalVideos == basic + mid + adv
        totalHours == basic * Weight(25) + mid * Weight(50) + adv * Weight(110)
                      + (IF d.videoNeedsScripting THEN totalVideos * Weight(10) ELSE 0)
                      + (IF d.videoNeedsStock THEN totalVideos * Weight(5) ELSE 0)
        withExtra == IF totalHours > baseHours
                     THEN basePrice + HoursAtRate(totalHours - baseHours, extraRate)
                     ELSE basePrice
        finalPrice == IF d.videoNeedsStock THEN withExtra + Dollars(75) ELSE withExtra
    IN [price |-> MathRound(finalPrice), hours |-> totalHours]

computeVideoPricing(d) ==
    LET basic == NumberOr0(d.videoBasic)
        mid == NumberOr0(d.videoMid)
        adv == NumberOr0(d.videoAdvanced)
        basePrice == Dollars(699)
        baseHours == Hours(55)
        extraRate == 12
        totalVideos == basic + mid + adv
        totalHours == basic * Weight(25) + mid * Weight(50) + adv * Weight(110)
                      + (IF d.videoNeedsScripting THEN totalVideos * Weight(10) ELSE 0)
                      + (IF d.videoNeedsStock THEN totalVideos * Weight(5) ELSE 0)
        finalPrice == IF totalHours > baseHours
                      THEN basePrice + HoursAtRate(totalHours - baseHours, extraRate)
                      ELSE basePrice
    IN [price |-> MathRound(finalPrice), hours |-> totalHours]

\* the entry pushed when cond holds
PushIf(r, cond, e) == IF cond THEN Push(r, e) ELSE r

\* the stock entry pushed before the scripting entry
VideoIncludesStockFirst(r, d, subtitlesText) ==
    LET totalVideos == TotalVideos(d)
        r1 == PushIf(r, totalVideos > 0,
                     EntryN("videos/month (mix of basic, mid-level, advanced)", totalVideos))
        r2 == PushIf(r1, d.videoSubtitles, Entry(subtitlesText))
        r3 == PushIf(r2, d.videoNeedsStock, Entry("Premium stock footage/music licensing"))
    IN PushIf(r3, d.videoNeedsScripting, Entry("Concept, scripting & planning support"))

\* if (totalVideos > 0) result.includes.push(`${totalVideos} videos/month (...)`)
PushVideoCount(r, totalVideos) ==
    PushIf(r, totalVideos > 0,
           EntryN("videos/month (mix of basic, mid-level, advanced)", totalVideos))

\* the video entries of includes, shared by the video and the both branch:
\* the count, then subtitles, scripting and stock
VideoIncludes(r, d, subtitlesText) ==
    PushIf(PushIf(PushIf(PushVideoCount(r, TotalVideos(d)),
                         d.videoSubtitles, Entry(subtitlesText)),
                  d.videoNeedsScripting, Entry("Concept, scripting & planning support")),
           d.videoNeedsStock, Entry("Premium stock footage/music licensing"))

\* a tenth taken off in the place of a fifth
BundleDiscountTenth(subtotal) == MathRound(subtotal \div 10)

\* no discount taken
BundleDiscountDropped(subtotal) == 0

\* Math.round(subtotal * 0.2) of a whole-dollar subtotal
BundleDiscount(subtotal) == MathRound(subtotal \div 5)

\* result.monthlyPrice = p.price; result.estimatedHours = p.hours
Priced(r, p) == [r EXCEPT !.monthlyPrice = p.price, !.estimatedHours = p.hours]

\* the graphic branch pushing the number of designs as the video branch does
GraphicBranchCountEntry(r0, d) ==
    LET g == computeGraphicPricing(d)
        totalCount == getGraphicTotals(d).totalCount
        r1 == [r0 EXCEPT !.monthlyPrice = g.price, !.estimatedHours = g.hours]
        r2 == Push(r1, Entry("Graphic Design Package"))
        r3 == PushIf(r2, totalCount > 0, EntryN("designs/month", totalCount))
    IN PushIf(r3, d.bilingual, Entry("Arabic & English designs"))

\* if (data.serviceType === 'graphic') {...}
GraphicBranch(r0, d) ==
    PushIf(Push(Priced(r0, computeGraphicPricing(d)), Entry("Graphic Design Package")),
           d.bilingual, Entry("Arabic & English designs"))

\* else if (data.serviceType === 'video') {...}
VideoBranch(r0, d) ==
    VideoIncludes(Push(Priced(r0, computeVideoPricing(d)), Entry("Video Editing Package")),
                  d, "Subtitles included")

\* subtotal - discount, with discount = Math.round(subtotal * 0.2)
LessDiscount(subtotal) == subtotal - BundleDiscount(subtotal)

\* result.monthlyPrice = subtotal - discount; result.estimatedHours = g.hours + v.hours
PricedBundle(r, g, v) ==
    [r EXCEPT !.monthlyPrice = LessDiscount(g.price + v.price),
              !.estimatedHours = g.hours + v.hours]

\* else if (data.serviceType === 'both') {...}
BothBranch(r0, d) ==
    VideoIncludes(
        PushIf(Push(Push(PricedBundle(r0, computeGraphicPricing(d), computeVideoPricing(d)),
                         Entry("Complete Creative Package: Design + Video")),
                    Entry("Bundle discount applied (20%)")),
               d.bilingual, Entry("Arabic & English designs included")),
        d, "Subtitles included for videos")

\* a final else in the place of else if (both): no selection priced as graphic
calculatePricingFallThrough(d) ==
    LET r0 == NewResult
    IN IF d.serviceType = "video" THEN VideoBranch(r0, d)
       ELSE IF d.serviceType = "both" THEN BothBranch(r0, d)
       ELSE GraphicBranch(r0, d)

calculatePricing(d) ==
    LET r0 == NewResult
    IN IF d.serviceType = "graphic" THEN GraphicBranch(r0, d)
       ELSE IF d.serviceType = "video" THEN VideoBranch(r0, d)
       ELSE IF d.serviceType = "both" THEN BothBranch(r0, d)
       ELSE r0

(***************************************************************************)
(* Reduced-bundle-base variant: the second component of                    *)
(* src/unnamed/part_001.  Its amounts are whole dollars, held times        *)
(* PriceScale like the rest; the numbers in includes are plain.            *)
(***************************************************************************)
\* the character U+2013 that separates the ends of a band
EnDash == "en-dash"

designTypeOptions ==
    <<"Social Media Posts", "Website Graphics", "Banners / Ads",
      "Brochures / Company Profiles", "Packaging / Labels", "Other">>

videoTypeOptions ==
    <<"Reels / TikToks", "YouTube Videos", "Explainer Videos", "Ads", "Other">>

\* a fifth band, '31-40', among the buttons
DesignBandsWithForty ==
    {<<"5", EnDash, "1", "0">>, <<"1", "1", EnDash, "2", "0">>,
     <<"2", "1", EnDash, "3", "0">>, <<"3", "0", "+">>, <<"3", "1", EnDash, "4", "0">>}

\* ['5-10', '11-20', '21-30', '30+'] (with U+2013)
DesignBands ==
    {<<"5", EnDash, "1", "0">>, <<"1", "1", EnDash, "2", "0">>,
     <<"2", "1", EnDash, "3", "0">>, <<"3", "0", "+">>}

\* ['1-4', '5-8', '9-12', '13+'] (with U+2013)
VideoBands ==
    {<<"1", EnDash, "4">>, <<"5", EnDash, "8">>, <<"9", EnDash, "1", "2">>,
     <<"1", "3", "+">>}

\* ['< 60 sec', '1-3 mins', '3-5 mins', '5+ mins'] (with U+2013)
VideoDurations == {"< 60 sec", "1-3 mins", "3-5 mins", "5+ mins"}

\* useState<PricingData>({...})
InitialBandData ==
    [serviceType |-> "",
     designPieces |-> <<>>, designTypes |-> <<>>, customDesignType |-> "",
     bilingual |-> FALSE,
     videoCount |-> <<>>, videoDuration |-> "", videoTypes |-> <<>>,
     customVideoType |-> "", editingQuality |-> "", footageReady |-> "",
     needCaptions |-> FALSE, needStock |-> FALSE,
     name |-> "", company |-> "", email |-> "", phone |-> ""]

\* array.includes(x)
Includes(arr, x) == \E i \in 1..Len(arr) : arr[i] = x

\* array.filter(t => t !== x)
RECURSIVE Without(_, _)
Without(arr, x) ==
    IF arr = <<>> THEN <<>>
    ELSE IF Head(arr) = x THEN Without(Tail(arr), x)
    ELSE <<Head(arr)>> \o Without(Tail(arr), x)

\* text.split(U+2013)[1]; undefined is held as the empty text, falsy like it
SplitSecond(s) ==
    LET dashes == {i \in 1..Len(s) : s[i] = EnDash}
    IN IF dashes = {} THEN <<>>
       ELSE LET i == CHOOSE k \in dashes : \A j \in dashes : k <= j
                later == {k \in dashes : k > i}
                j == IF later = {} THEN Len(s) + 1
                     ELSE CHOOSE k \in later : \A l \in later : k <= l
            IN SubSeq(s, i + 1, j - 1)

\* text.replace('+', ''): the first plus sign removed
RemoveFirstPlus(s) ==
    LET plus == {i \in 1..Len(s) : s[i] = "+"}
    IN IF plus = {} THEN s
       ELSE LET i == CHOOSE k \in plus : \A j \in plus : k <= j
            IN SubSeq(s, 1, i - 1) \o SubSeq(s, i + 1, Len(s))

IsDigit(c) == \E i \in 1..Len(DigitChar) : DigitChar[i] = c

\* parseInt(text): the value of the leading digits (every text parsed here
\* starts with a digit)
ParseInt(s) ==
    LET n == CHOOSE k \in 0..Len(s) :
                 /\ \A i \in 1..k : IsDigit(s[i])
                 /\ (k < Len(s) => ~IsDigit(s[k + 1]))
    IN DigitsValue(SubSeq(s, 1, n))

\* parseInt(text.split(U+2013)[1] || text.replace('+', '') || '0')
BandCount(s) ==
    LET second == SplitSecond(s)
        replaced == RemoveFirstPlus(s)
    IN ParseInt(IF second # <<>> THEN second
                ELSE IF replaced # <<>> THEN replaced
                ELSE <<"0">>)

\* Math.ceil(a / b) for b > 0
CeilDiv(a, b) == 0 - ((0 - a) \div b)

Max(a, b) == IF a >= b THEN a ELSE b
Min(a, b) == IF a <= b THEN a ELSE b

\* hours times HourScale
calculateDesignHoursBundle(d) ==
    LET designCount == BandCount(d.designPieces)
        \* Math.min(designCount * 0.6, designCount * 0.8), in tenths
        socialMediaDesigns == IF Includes(d.designTypes, "Social Media Posts")
                              THEN Min(designCount * 6, designCount * 8)
                              ELSE 0
        \* (socialMediaDesigns / 5) * 2.5
        h1 == (socialMediaDesigns * HourScale) \div 20
        \* Math.ceil(designCount * 0.15) * 4.5
        h2 == IF Includes(d.designTypes, "Brochures / Company Profiles")
              THEN (CeilDiv(designCount * 15, 100) * 45 * HourScale) \div 10
              ELSE 0
        hasCreativeTasks ==
            \E t \in {"Website Graphics", "Packaging / Labels", "Banners / Ads"} :
                Includes(d.designTypes, t)
        \* (Math.ceil(designCount * 0.25) / 5) * 2.5 * 2
        h3 == IF hasCreativeTasks THEN CeilDiv(designCount * 25, 100) * HourScale ELSE 0
    IN Max(h1 + h2 + h3, (525 * HourScale) \div 10)

\* result.breakdown.component += dollars
AddTo(r, component, dollars) ==
    [r EXCEPT !.breakdown[component] = @ + Dollars(dollars)]

\* if (cond) { result.breakdown.component += dollars; result.includes.push(text) }
AddIf(r, cond, component, dollars, text) ==
    IF cond THEN Push(AddTo(r, component, dollars), Entry(text)) ELSE r

\* if (count > included) breakdown.volumeAdjustment += Math.ceil((count - included) / step) * each
VolumeIf(r, count, included, step, each) ==
    IF count > included
    THEN AddTo(r, "volumeAdjustment", CeilDiv(count - included, step) * each)
    ELSE r

\* the add-ons left out of the sum
SumBreakdownWithoutAddOns(r) ==
    r.breakdown.basePrice + r.breakdown.volumeAdjustment + r.breakdown.complexityAdjustment
        + r.breakdown.bilingualBonus

\* Object.values(result.breakdown).reduce((sum, val) => sum + val, 0)
SumBreakdown(r) ==
    r.breakdown.basePrice + r.breakdown.volumeAdjustment + r.breakdown.complexityAdjustment
        + r.breakdown.bilingualBonus + r.breakdown.addOns

\* if (data.serviceType === 'both') {...}
BothBranchBundle(r0, d) ==
    LET designCount == BandCount(d.designPieces)
        videoCount == BandCount(d.videoCount)
        r1 == AddTo(r0, "basePrice", 959)
        r2 == Push(r1, Entry("Complete Creative Package: Design + Video"))
        r3 == Push(r2, Entry("Combined creative services"))
        r4 == Push(r3, EntryN("Up to designs/month", Max(designCount, 25)))
        r5 == Push(r4, EntryN("Up to videos/month", Max(videoCount, 8)))
        r6 == [r5 EXCEPT !.estimatedHours =
                  calculateDesignHoursBundle(d) + (videoCount * HourScale) \div 2]
        r7 == VolumeIf(r6, designCount, 25, 10, 120)
        r8 == VolumeIf(r7, videoCount, 8, 4, 160)
        r9 == AddIf(r8, d.editingQuality = "premium", "complexityAdjustment", 320,
                    "Premium video editing with motion graphics")
        r10 == AddIf(r9, Includes(d.designTypes, "Brochures / Company Profiles"),
                     "complexityAdjustment", 240, "Complex brochures & company profiles")
        r11 == AddIf(r10, d.bilingual, "bilingualBonus", 80, "Arabic & English content")
        r12 == AddIf(r11, d.footageReady = "need-help", "addOns", 160,
                     "Script & footage creation support")
        r13 == AddIf(r12, d.needCaptions, "addOns", 40, "Professional captions/subtitles")
    IN AddIf(r13, d.needStock, "addOns", 80, "Stock footage & music library")

\* else if (data.serviceType === 'graphic') {...}
GraphicBranchBundle(r0, d) ==
    LET pieceCount == BandCount(d.designPieces)
        hours == calculateDesignHoursBundle(d)
        r1 == AddTo(r0, "basePrice", 499)
        r2 == Push(r1, Entry("Graphic Design Package"))
        r3 == [r2 EXCEPT !.estimatedHours = hours]
        r4 == Push(r3, EntryN("Up to designs/month", pieceCount))
        r5 == Push(r4, EntryN("hours/day average", CeilDiv(hours, 21 * HourScale)))
        r6 == VolumeIf(r5, pieceCount, 30, 10, 100)
        r7 == AddIf(r6, Includes(d.designTypes, "Brochures / Company Profiles"),
                    "complexityAdjustment", 200, "Complex brochures & company profiles")
        hasCreativeTasks ==
            \E t \in {"Website Graphics", "Packaging / Labels"} : Includes(d.designTypes, t)
        r8 == AddIf(r7, hasCreativeTasks, "complexityAdjustment", 150,
                    "Creative & branding materials")
    IN AddIf(r8, d.bilingual, "bilingualBonus", 75, "Arabic & English designs")

\* else if (data.serviceType === 'video') {...}
VideoBranchBundle(r0, d) ==
    LET videoCount == BandCount(d.videoCount)
        \* videoCount * 0.75
        hours == (videoCount * 3 * HourScale) \div 4
        r1 == AddTo(r0, "basePrice", 699)
        r2 == Push(r1, Entry("Video Editing Package"))
        r3 == [r2 EXCEPT !.estimatedHours = hours]
        r4 == Push(r3, EntryN("Up to videos/month", videoCount))
        r5 == Push(r4, EntryN("hours/day average", CeilDiv(hours, 21 * HourScale)))
        r6 == VolumeIf(r5, videoCount, 10, 5, 140)
        r7 == IF d.editingQuality = "premium"
              THEN [AddIf(r6, TRUE, "complexityAdjustment", 300,
                          "Premium editing with motion graphics")
                       EXCEPT !.estimatedHours = (@ * 3) \div 2]
              ELSE r6
        r8 == AddIf(r7, d.footageReady = "need-help", "addOns", 150,
                    "Script & footage creation support")
        r9 == AddIf(r8, d.needCaptions, "addOns", 50, "Professional captions/subtitles")
    IN AddIf(r9, d.needStock, "addOns", 75, "Stock footage & music library")

\* result.monthlyPrice = Object.values(result.breakdown).reduce(...)
Totalled(r) == [r EXCEPT !.monthlyPrice = SumBreakdown(r)]

\* the branch of the service type chosen, none when no service is chosen
BranchBundle(r0, d) ==
    IF d.serviceType = "both" THEN BothBranchBundle(r0, d)
    ELSE IF d.serviceType = "graphic" THEN GraphicBranchBundle(r0, d)
    ELSE IF d.serviceType = "video" THEN VideoBranchBundle(r0, d)
    ELSE r0

calculatePricingBundle(d) == Totalled(BranchBundle(NewResult, d))

\* handleDesignTypeToggle / handleVideoTypeToggle
Toggled(arr, type) == IF Includes(arr, type) THEN Without(arr, type) ELSE Append(arr, type)

handleDesignTypeToggle(d, type) == [d EXCEPT !.designTypes = Toggled(@, type)]

handleVideoTypeToggle(d, type) == [d EXCEPT !.videoTypes = Toggled(@, type)]

\* the form data after one more answer: a button, a checkbox or a text input
Answered(d) ==
    {[d EXCEPT !.designPieces = o] : o \in DesignBands}
        \cup {handleDesignTypeToggle(d, designTypeOptions[i]) : i \in 1..Len(designTypeOptions)}
        \cup {[d EXCEPT !.customDesignType = "Logo"]}
        \cup {[d EXCEPT !.bilingual = b] : b \in BOOLEAN}
        \cup {[d EXCEPT !.videoCount = o] : o \in VideoBands}
        \cup {[d EXCEPT !.videoDuration = o] : o \in VideoDurations}
        \cup {[d EXCEPT !.editingQuality = q] : q \in {"basic", "premium"}}
        \cup {handleVideoTypeToggle(d, videoTypeOptions[i]) : i \in 1..Len(videoTypeOptions)}
        \cup {[d EXCEPT !.customVideoType = "Vlog"]}
        \cup {[d EXCEPT !.footageReady = a] : a \in {"ready", "need-help"}}
        \cup {[d EXCEPT !.needCaptions = b] : b \in BOOLEAN}
        \cup {[d EXCEPT !.needStock = b] : b \in BOOLEAN}
        \cup {[d EXCEPT !.name = "Ann"], [d EXCEPT !.company = "Acme"],
              [d EXCEPT !.email = "ann@acme.com"], [d EXCEPT !.phone = "+971 50 000 0000"]}

\* the form data after at most k answers
RECURSIVE AnsweredUpTo(_)
AnsweredUpTo(k) ==
    IF k = 0 THEN {InitialBandData}
    ELSE LET prev == AnsweredUpTo(k - 1)
         IN prev \cup UNION {Answered(d) : d \in prev}

(***************************************************************************)
(* Requests: the form data calculatePricing is applied to.                 *)
(***************************************************************************)
\* texts a number input can hold: blank, whole numbers, a negative, a fraction
CountInputs ==
    {NumberText(n * CountScale) : n \in 0..MaxCount}
        \cup {<<>>, <<"-", "3">>, <<"2", ".", "5">>}

OtherDesignInputs == {<<>>, <<" ">>, <<"l", "o", "g", "o">>}

\* the values field f can be given
FieldInputs(f) ==
    IF f \in CountFields THEN CountInputs
    ELSE IF f \in FlagFields THEN BOOLEAN
    ELSE IF f = "otherDesignType" THEN OtherDesignInputs
    ELSE IF f = "name" THEN {"", "Ann"}
    ELSE IF f = "company" THEN {"", "Acme"}
    ELSE IF f = "email" THEN {"", "ann@acme.com"}
    ELSE {"", "+971 50 000 0000"}

EditableFields == (DOMAIN InitialData) \ {"serviceType"}

\* the form data with at most k fields changed from their initial value
RECURSIVE Edited(_)
Edited(k) ==
    IF k = 0 THEN {InitialData}
    ELSE LET prev == Edited(k - 1)
         IN prev \cup UNION {{[d EXCEPT ![f] = v] : v \in FieldInputs(f)} :
                               d \in prev, f \in EditableFields}

\* the fields of the form after serviceType, in the order of PricingData
FieldOrder ==
    <<"smDesigns", "banners", "brochures", "illustrations", "packaging",
      "otherDesignType", "bilingual", "videoBasic", "videoMid", "videoAdvanced",
      "videoSubtitles", "videoNeedsStock", "videoNeedsScripting",
      "name", "company", "email", "phone">>

\* position in FieldOrder of the last field of d that differs from its initial
\* value, 0 when none does
LastEdited(d) ==
    LET edited == {i \in 1..Len(FieldOrder) : d[FieldOrder[i]] # InitialData[FieldOrder[i]]}
    IN IF edited = {} THEN 0 ELSE CHOOSE i \in edited : \A j \in edited : j <= i

\* one more field given a value, and a service type chosen
Requested(d, f, v, s) == [d EXCEPT ![f] = v, !.serviceType = s]

(***************************************************************************)
(* SpecCalc: calculatePricing applied to a request.                        *)
(***************************************************************************)
InitCalc ==
    /\ \E d \in Edited(MaxEdited - 1), s \in ServiceTypes :
           \E i \in (LastEdited(d) + 1)..Len(FieldOrder) :
               \E v \in FieldInputs(FieldOrder[i]) :
                   data = Requested(d, FieldOrder[i], v, s)
    /\ result = NoResult
    /\ currentStep = 1
    /\ showResults = FALSE
    /\ progress = 0
    /\ calls = <<>>
    /\ bandData = InitialBandData
    /\ bandResult = NoResult

\* const pricing = calculatePricing()
Calculate ==
    /\ result' = calculatePricing(data)
    /\ UNCHANGED <<data, currentStep, showResults, progress, bandData, bandResult, calls>>

NextCalc == Calculate

SpecCalc == InitCalc /\ [][NextCalc]_vars

(***************************************************************************)
(* Spec: the wizard of the current calculator.                             *)
(***************************************************************************)
totalSteps == 3

\* ((currentStep - 1) / totalSteps) * 100, held times totalSteps
ProgressOf(step) == (step - 1) * 100

\* setProgress(100), held times totalSteps
FullProgress == 100 * totalSteps

GraphicCountFields == {"smDesigns", "banners", "brochures", "illustrations", "packaging"}

VideoCountFields == {"videoBasic", "videoMid", "videoAdvanced"}

\* texts typed into a number input of the wizard
TypedInputs ==
    {NumberText(n * CountScale) : n \in 0..MaxTyped}
        \cup {<<>>, <<"-", "3">>, <<"2", ".", "5">>}

\* the fields of step 2
DetailFields ==
    CountFields \cup {"otherDesignType", "bilingual", "videoNeedsStock", "videoNeedsScripting"}

\* at most MaxEdited fields of step 2 differ from their initial value
WithinEdits(d) ==
    Cardinality({f \in DetailFields : d[f] # InitialData[f]}) <= MaxEdited

GraphicSectionShown == data.serviceType \in {"graphic", "both"}

VideoSectionShown == data.serviceType \in {"video", "both"}

\* the video requirements left unchecked when both services are chosen
canProceedToLeadDesignOnly(d) ==
    LET designRequirements ==
            getGraphicTotals(d).totalCount > 0 \/ TrimLength(d.otherDesignType) > 0
    IN IF d.serviceType \in {"graphic", "both"} THEN designRequirements
       ELSE IF d.serviceType = "video" THEN TotalVideos(d) > 0
       ELSE FALSE

canProceedToLead(d) ==
    LET designRequirements ==
            getGraphicTotals(d).totalCount > 0 \/ TrimLength(d.otherDesignType) > 0
    IN IF d.serviceType = "graphic" THEN designRequirements
       ELSE IF d.serviceType = "video" THEN TotalVideos(d) > 0
       ELSE IF d.serviceType = "both" THEN designRequirements /\ TotalVideos(d) > 0
       ELSE FALSE

Init ==
    /\ data = InitialData
    /\ currentStep = 1
    /\ showResults = FALSE
    /\ progress = 0
    /\ calls = <<>>
    /\ result = NoResult
    /\ bandData = InitialBandData
    /\ bandResult = NoResult

\* a change of the form data alone
SetData(d) ==
    /\ WithinEdits(d)
    /\ data' = d
    /\ UNCHANGED <<currentStep, showResults, progress, result, bandData, bandResult, calls>>

\* a change of the step, and the effect that follows it
SetCurrentStep(step) ==
    /\ currentStep' = step
    /\ progress' = ProgressOf(step)

\* the form started afresh for the chosen service
handleServiceSelectResets(service) ==
    /\ ~showResults
    /\ currentStep = 1
    /\ data' = [InitialData EXCEPT !.serviceType = service]
    /\ SetCurrentStep(2)
    /\ UNCHANGED <<showResults, result, bandData, bandResult, calls>>

\* the details step skipped: setCurrentStep(3)
handleServiceSelectToLead(service) ==
    /\ ~showResults
    /\ currentStep = 1
    /\ data' = [data EXCEPT !.serviceType = service]
    /\ SetCurrentStep(3)
    /\ UNCHANGED <<showResults, result, bandData, bandResult, calls>>

handleServiceSelect(service) ==
    /\ ~showResults
    /\ currentStep = 1
    /\ data' = [data EXCEPT !.serviceType = service]
    /\ SetCurrentStep(2)
    /\ UNCHANGED <<showResults, result, bandData, bandResult, calls>>

\* onChange of a number input of step 2
ChangeCount(f, v) ==
    /\ ~showResults
    /\ currentStep = 2
    /\ IF f \in GraphicCountFields THEN GraphicSectionShown ELSE VideoSectionShown
    /\ SetData([data EXCEPT ![f] = v])

ChangeOtherDesignType(v) ==
    /\ ~showResults
    /\ currentStep = 2
    /\ GraphicSectionShown
    /\ SetData([data EXCEPT !.otherDesignType = v])

\* the Yes / No buttons of the bilingual question
ClickBilingual(b) ==
    /\ ~showResults
    /\ currentStep = 2
    /\ GraphicSectionShown
    /\ SetData([data EXCEPT !.bilingual = b])

\* Yes / No buttons for subtitles, like those of the stock question
ClickVideoSubtitles(b) ==
    /\ ~showResults
    /\ currentStep = 2
    /\ VideoSectionShown
    /\ SetData([data EXCEPT !.videoSubtitles = b])

ClickVideoNeedsStock(b) ==
    /\ ~showResults
    /\ currentStep = 2
    /\ VideoSectionShown
    /\ SetData([data EXCEPT !.videoNeedsStock = b])

ClickVideoNeedsScripting(b) ==
    /\ ~showResults
    /\ currentStep = 2
    /\ VideoSectionShown
    /\ SetData([data EXCEPT !.videoNeedsScripting = b])

\* Back of step 2
BackToServices ==
    /\ ~showResults
    /\ currentStep = 2
    /\ SetCurrentStep(1)
    /\ UNCHANGED <<data, showResults, result, bandData, bandResult, calls>>

\* Continue of step 2, disabled unless canProceedToLead()
Continue ==
    /\ ~showResults
    /\ currentStep = 2
    /\ canProceedToLead(data)
    /\ SetCurrentStep(3)
    /\ UNCHANGED <<data, showResults, result, bandData, bandResult, calls>>

\* the lead inputs still mounted in the result view
ChangeContactInResults(f, v) ==
    /\ currentStep = 3
    /\ SetData([data EXCEPT ![f] = v])

\* onChange of a lead input of step 3
ChangeContact(f, v) ==
    /\ ~showResults
    /\ currentStep = 3
    /\ SetData([data EXCEPT ![f] = v])

\* Back of step 3
BackToDetails ==
    /\ ~showResults
    /\ currentStep = 3
    /\ SetCurrentStep(2)
    /\ UNCHANGED <<data, showResults, result, bandData, bandResult, calls>>

\* the results shown although a required field is empty
LeadCaptureRefusedShows ==
    /\ data.name = "" \/ data.company = "" \/ data.email = ""
    /\ progress' = FullProgress
    /\ showResults' = TRUE
    /\ UNCHANGED <<data, currentStep, result, bandData, bandResult, calls>>

\* the toast and the early return
LeadCaptureRefused ==
    /\ data.name = "" \/ data.company = "" \/ data.email = ""
    /\ UNCHANGED vars

LeadCaptureAccepted ==
    /\ ~(data.name = "" \/ data.company = "" \/ data.email = "")
    /\ progress' = FullProgress
    /\ showResults' = TRUE
    /\ UNCHANGED <<data, currentStep, result, bandData, bandResult, calls>>

handleLeadCapture ==
    /\ ~showResults
    /\ currentStep = 3
    /\ (LeadCaptureRefused \/ LeadCaptureAccepted)

\* the state a call of calculatePricing can read or write besides its result
Surroundings(d, step, shown, prog) ==
    [data |-> d, currentStep |-> step, showResults |-> shown, progress |-> prog]

\* a render of the result view: const pricing = calculatePricing(); the call
\* is logged with what it returned and the state before and after it
RenderResults ==
    /\ showResults
    /\ Len(calls) < MaxCalls
    /\ result' = calculatePricing(data)
    /\ UNCHANGED <<data, currentStep, showResults, progress, bandData, bandResult>>
    /\ calls' = Append(calls,
                       [returned |-> result',
                        before |-> Surroundings(data, currentStep, showResults, progress),
                        after |-> Surroundings(data', currentStep', showResults', progress')])

Next ==
    \/ \E service \in {"graphic", "video", "both"} : handleServiceSelect(service)
    \/ \E f \in CountFields, v \in TypedInputs : ChangeCount(f, v)
    \/ \E v \in OtherDesignInputs : ChangeOtherDesignType(v)
    \/ \E b \in BOOLEAN : ClickBilingual(b)
    \/ \E b \in BOOLEAN : ClickVideoNeedsStock(b)
    \/ \E b \in BOOLEAN : ClickVideoNeedsScripting(b)
    \/ BackToServices
    \/ Continue
    \/ \E f \in ContactFields : \E v \in FieldInputs(f) : ChangeContact(f, v)
    \/ BackToDetails
    \/ handleLeadCapture
    \/ RenderResults

Spec == Init /\ [][Next]_vars

(***************************************************************************)
(* Claims about calculatePricing of the current calculator (SpecCalc).     *)
(***************************************************************************)
\* calculatePricing has returned
Called == result.monthlyPrice >= 0

BreakdownSum(r) ==
    r.breakdown.basePrice + r.breakdown.volumeAdjustment + r.breakdown.complexityAdjustment
        + r.breakdown.bilingualBonus + r.breakdown.addOns

\* a sum of counts (times CountScale) times tenths of an hour, as hours times HourScale
FromTenths(x) == (x * HourScale) \div (10 * CountScale)

\* 1 sm + 1.5 banners + 5 brochures + 3 illustrations + 5 packaging
GraphicHoursStated(d) ==
    FromTenths(10 * NumberOr0(d.smDesigns) + 15 * NumberOr0(d.banners)
               + 50 * NumberOr0(d.brochures) + 30 * NumberOr0(d.illustrations)
               + 50 * NumberOr0(d.packaging))

\* 2.5 basic + 5 mid + 11 advanced + n if scripting + 0.5 n if stock
VideoHoursStated(d) ==
    LET b == NumberOr0(d.videoBasic)
        m == NumberOr0(d.videoMid)
        a == NumberOr0(d.videoAdvanced)
    IN FromTenths(25 * b + 50 * m + 110 * a
                  + (IF d.videoNeedsScripting THEN 10 * (b + m + a) ELSE 0)
                  + (IF d.videoNeedsStock THEN 5 * (b + m + a) ELSE 0))

IsInteger(p) == p % PriceScale = 0

GraphicCountsZero(d) ==
    \A f \in {"smDesigns", "banners", "brochures", "illustrations", "packaging"} :
        NumberOr0(d[f]) = 0

VideoCountsZero(d) ==
    \A f \in {"videoBasic", "videoMid", "videoAdvanced"} : NumberOr0(d[f]) = 0

CountsWholeNonNegative(d) ==
    \A f \in CountFields : NumberOr0(d[f]) >= 0 /\ NumberOr0(d[f]) % CountScale = 0

\* the request with count field f increased by one
Increased(d, f) == [d EXCEPT ![f] = NumberText(NumberOr0(d[f]) + CountScale)]

\* C1: for serviceType graphic, video or both the five breakdown components of
\* the returned result sum exactly to its monthlyPrice.
C1_BreakdownSumsToMonthlyPrice ==
    (Called /\ data.serviceType \in {"graphic", "video", "both"})
        => BreakdownSum(result) = result.monthlyPrice

\* C2: the monthlyPrice for serviceType both is strictly less than the
\* graphic-only monthlyPrice plus the video-only monthlyPrice on the same
\* counts and flags.
C2_BundleBelowStandaloneSum ==
    (Called /\ data.serviceType = "both")
        => result.monthlyPrice
             < calculatePricing([data EXCEPT !.serviceType = "graphic"]).monthlyPrice
               + calculatePricing([data EXCEPT !.serviceType = "video"]).monthlyPrice

C2_Witness ==
    /\ Called
    /\ data.serviceType = "both"
    /\ CountsWholeNonNegative(data)
    /\ GraphicHoursStated(data) > Hours(55)
    /\ VideoHoursStated(data) > 0

\* C4: increasing any single one of the eight item counts by one, all other
\* fields fixed, never decreases monthlyPrice, for every serviceType.
C4_MonotoneInEachCount ==
    (Called /\ data.serviceType \in {"graphic", "video", "both"})
        => \A f \in CountFields :
              calculatePricing(Increased(data, f)).monthlyPrice >= result.monthlyPrice

C4_Witness ==
    /\ Called
    /\ data.serviceType = "both"
    /\ \E f \in CountFields :
          calculatePricing(Increased(data, f)).monthlyPrice > result.monthlyPrice
    /\ \E f \in CountFields :
          calculatePricing(Increased(data, f)).monthlyPrice = result.monthlyPrice

\* C5: with serviceType empty the result is the zero-valued result whatever
\* the other fields hold: price 0, every breakdown component 0, hours 0 and
\* includes empty.
C5_NoServiceZeroResult ==
    (Called /\ data.serviceType = "")
        => /\ result.monthlyPrice = 0
           /\ \A c \in DOMAIN result.breakdown : result.breakdown[c] = 0
           /\ result.estimatedHours = 0
           /\ result.includes = <<>>

C5_Witness ==
    /\ Called
    /\ data.serviceType = ""
    /\ GraphicHoursStated(data) > Hours(55)
    /\ data.bilingual

C7_IntegerAtLeastBase ==
    Called =>
        /\ data.serviceType = "graphic"
              => IsInteger(result.monthlyPrice) /\ result.monthlyPrice >= Dollars(499)
        /\ data.serviceType = "video"
              => IsInteger(result.monthlyPrice) /\ result.monthlyPrice >= Dollars(699)

C7_Witness ==
    /\ Called
    /\ data.serviceType = "graphic"
    /\ data.bilingual
    /\ GraphicHoursStated(data) < Hours(55)
    /\ ~GraphicCountsZero(data)

\* C8: a graphic request of at most 55 total hours (55 included) costs 499,
\* or 549 when bilingual; a video request of at most 55 hours costs 699.
C8_WithinAllotmentBasePrice ==
    Called =>
        /\ (data.serviceType = "graphic" /\ GraphicHoursStated(data) <= Hours(55))
              => result.monthlyPrice = (IF data.bilingual THEN Dollars(549) ELSE Dollars(499))
        /\ (data.serviceType = "video" /\ VideoHoursStated(data) <= Hours(55))
              => result.monthlyPrice = Dollars(699)

C8_Witness ==
    /\ Called
    /\ data.serviceType = "graphic"
    /\ data.bilingual
    /\ GraphicHoursStated(data) = Hours(55)

\* C9: with zero items in the selected category the result still has the
\* category's base price and the base included hours (55) as its hours.
C9_ZeroItemsBasePriceAndHours ==
    Called =>
        /\ (data.serviceType = "graphic" /\ GraphicCountsZero(data) /\ ~data.bilingual)
              => result.monthlyPrice = Dollars(499) /\ result.estimatedHours = Hours(55)
        /\ (data.serviceType = "video" /\ VideoCountsZero(data))
              => result.monthlyPrice = Dollars(699) /\ result.estimatedHours = Hours(55)

\* round(x) of an amount held times PriceScale, as a whole number of dollars
RoundStated(x) == (2 * x + PriceScale) \div (2 * PriceScale)

\* C10: for a graphic request of h hours, T = 499 + 9 * max(0, h - 55);
\* monthlyPrice = round(T), or round(1.1 * T) when bilingual.
C10_BilingualOnRunningTotal ==
    (Called /\ data.serviceType = "graphic")
        => LET h == GraphicHoursStated(data)
               extra == IF h > Hours(55) THEN h - Hours(55) ELSE 0
               T == 499 * PriceScale + 9 * extra * (PriceScale \div HourScale)
           IN result.monthlyPrice
                = Dollars(RoundStated(IF data.bilingual THEN (11 * T) \div 10 ELSE T))

C10_Witness ==
    /\ Called
    /\ data.serviceType = "graphic"
    /\ data.bilingual
    /\ GraphicHoursStated(data) > Hours(55)
    /\ result.monthlyPrice > Dollars(549)

(***************************************************************************)
(* SpecBundle: calculatePricing of the reduced-bundle-base variant applied *)
(* to the answers given.                                                   *)
(***************************************************************************)
InitBundle ==
    /\ \E d \in AnsweredUpTo(MaxAnswers - 1), s \in ServiceTypes :
           \E e \in Answered(d) : bandData = [e EXCEPT !.serviceType = s]
    /\ bandResult = NoResult
    /\ data = InitialData
    /\ result = NoResult
    /\ currentStep = 1
    /\ showResults = FALSE
    /\ progress = 0
    /\ calls = <<>>

\* const pricing = calculatePricing()
CalculateBundle ==
    /\ bandResult' = calculatePricingBundle(bandData)
    /\ UNCHANGED <<bandData, data, result, currentStep, showResults, progress, calls>>

NextBundle == CalculateBundle

SpecBundle == InitBundle /\ [][NextBundle]_vars

BandCalled == bandResult.monthlyPrice >= 0

\* C3: in the reduced-bundle-base variant the monthlyPrice for serviceType
\* both is strictly less than the graphic-only monthlyPrice plus the
\* video-only monthlyPrice computed from the same answers.
C3_BundleBelowStandaloneSum ==
    (BandCalled /\ bandData.serviceType = "both")
        => bandResult.monthlyPrice
             < calculatePricingBundle([bandData EXCEPT !.serviceType = "graphic"]).monthlyPrice
               + calculatePricingBundle([bandData EXCEPT !.serviceType = "video"]).monthlyPrice

(***************************************************************************)
(* SpecVideo: calculatePricing applied to a request whose three video      *)
(* counts and three video flags are all given.                             *)
(***************************************************************************)
VideoRequest(s, basic, mid, adv, subtitles, stock, scripting) ==
    [InitialData EXCEPT !.serviceType = s,
                        !.videoBasic = NumberText(basic * CountScale),
                        !.videoMid = NumberText(mid * CountScale),
                        !.videoAdvanced = NumberText(adv * CountScale),
                        !.videoSubtitles = subtitles,
                        !.videoNeedsStock = stock,
                        !.videoNeedsScripting = scripting]

InitVideo ==
    /\ \E s \in ServiceTypes, basic \in 0..MaxBasic, mid \in 0..MaxReels, adv \in 0..MaxReels :
           \E subtitles \in BOOLEAN, stock \in BOOLEAN, scripting \in BOOLEAN :
               data = VideoRequest(s, basic, mid, adv, subtitles, stock, scripting)
    /\ result = NoResult
    /\ currentStep = 1
    /\ showResults = FALSE
    /\ progress = 0
    /\ calls = <<>>
    /\ bandData = InitialBandData
    /\ bandResult = NoResult

SpecVideo == InitVideo /\ [][NextCalc]_vars

(***************************************************************************)
(* Claims about the video branch (SpecVideo).                              *)
(***************************************************************************)
\* a video request of basic reels only, with no add-on flag
BasicOnly(d) ==
    /\ d.serviceType = "video"
    /\ NumberOr0(d.videoMid) = 0 /\ NumberOr0(d.videoAdvanced) = 0
    /\ ~d.videoSubtitles /\ ~d.videoNeedsStock /\ ~d.videoNeedsScripting

\* 699 + 12 * max(0, h - 55) of hours h (times HourScale), times PriceScale
VideoTotalStated(h) ==
    699 * PriceScale
        + 12 * (IF h > Hours(55) THEN h - Hours(55) ELSE 0) * (PriceScale \div HourScale)

\* the entries every video result has: the package and, for n > 0 videos, their number
VideoBaseIncludes(n) ==
    IF n > 0
    THEN <<Entry("Video Editing Package"),
           EntryN("videos/month (mix of basic, mid-level, advanced)", n)>>
    ELSE <<Entry("Video Editing Package")>>

\* C11 as stated: a video request of 15 basic reels and nothing else is over
\* the allotment: monthlyPrice is 699 plus the excess hours at the overage
\* rate, above 699, and includes has an entry beyond the base ones.
C11_FifteenBasicOverAllotment ==
    (Called /\ BasicOnly(data) /\ NumberOr0(data.videoBasic) = 15 * CountScale)
        => /\ result.monthlyPrice > Dollars(699)
           /\ result.monthlyPrice = VideoTotalStated(result.estimatedHours)
           /\ result.includes # VideoBaseIncludes(NumberOr0(data.videoBasic))

\* C11 amended: a video request of n basic reels and nothing else has 2.5 n
\* hours; it is over the allotment only when 2.5 n > 55 (n >= 23), and then
\* costs 699 + 12 * (2.5 n - 55) > 699; 15 basic reels are 37.5 hours and cost
\* exactly 699; in both cases includes holds the base entries only.
C11_BasicOverAllotmentFrom23 ==
    (Called /\ BasicOnly(data))
        => LET n == NumberOr0(data.videoBasic) \div CountScale
               h == (n * 5 * HourScale) \div 2
           IN /\ result.estimatedHours = h
              /\ n < 23 => result.monthlyPrice = Dollars(699)
              /\ n >= 23 => /\ result.monthlyPrice > Dollars(699)
                            /\ result.monthlyPrice = VideoTotalStated(h)
              /\ result.includes = VideoBaseIncludes(n * CountScale)

C11_Witness ==
    /\ Called
    /\ BasicOnly(data)
    /\ NumberOr0(data.videoBasic) = 23 * CountScale
    /\ result.monthlyPrice = Dollars(729)

\* C20: for a video request, H = 2.5 basic + 5 mid + 11 advanced + n if
\* scripting + 0.5 n if stock and monthlyPrice = round(699 + 12 * max(0, H - 55));
\* with n = 0 no flag changes the price, and videoSubtitles changes neither
\* the price nor the hours.
C20_VideoBranchFormula ==
    (Called /\ data.serviceType = "video")
        => LET H == VideoHoursStated(data)
               noFlags == [data EXCEPT !.videoNeedsStock = FALSE,
                                       !.videoNeedsScripting = FALSE,
                                       !.videoSubtitles = FALSE]
               toggled == calculatePricing([data EXCEPT !.videoSubtitles = ~@])
           IN /\ result.estimatedHours = H
              /\ result.monthlyPrice = Dollars(RoundStated(VideoTotalStated(H)))
              /\ TotalVideos(data) = 0
                    => result.monthlyPrice = calculatePricing(noFlags).monthlyPrice
              /\ toggled.monthlyPrice = result.monthlyPrice
              /\ toggled.estimatedHours = result.estimatedHours

C20_Witness ==
    /\ Called
    /\ data.serviceType = "video"
    /\ data.videoNeedsStock /\ data.videoNeedsScripting /\ data.videoSubtitles
    /\ VideoHoursStated(data) > Hours(55)
    /\ NumberOr0(data.videoMid) > 0 /\ NumberOr0(data.videoAdvanced) > 0

(***************************************************************************)
(* SpecMix: calculatePricing applied to a request with one graphic count,  *)
(* one video count and the four flags given.                               *)
(***************************************************************************)
MixRequest(s, g, gv, v, vv, flags) ==
    [InitialData EXCEPT !.serviceType = s, ![g] = gv, ![v] = vv,
                        !.bilingual = flags[1],
                        !.videoSubtitles = flags[2],
                        !.videoNeedsStock = flags[3],
                        !.videoNeedsScripting = flags[4]]

InitMix ==
    /\ \E s \in ServiceTypes, g \in GraphicCountFields, v \in VideoCountFields :
           \E gv \in CountInputs, vv \in CountInputs :
               \E flags \in [1..4 -> BOOLEAN] :
                   data = MixRequest(s, g, gv, v, vv, flags)
    /\ result = NoResult
    /\ currentStep = 1
    /\ showResults = FALSE
    /\ progress = 0
    /\ calls = <<>>
    /\ bandData = InitialBandData
    /\ bandResult = NoResult

SpecMix == InitMix /\ [][NextCalc]_vars

(***************************************************************************)
(* Claims about calculatePricing on mixed requests (SpecMix).              *)
(***************************************************************************)
\* C12: the includes of a graphic result is exactly <<'Graphic Design
\* Package'>>, followed by 'Arabic & English designs' when bilingual; no item
\* count adds or removes an entry.
C12_GraphicIncludesExact ==
    (Called /\ data.serviceType = "graphic")
        => result.includes
             = (IF data.bilingual
                THEN <<Entry("Graphic Design Package"), Entry("Arabic & English designs")>>
                ELSE <<Entry("Graphic Design Package")>>)

C12_Witness ==
    /\ Called
    /\ data.serviceType = "graphic"
    /\ ~data.bilingual
    /\ data.smDesigns = <<"1", "0">>
    /\ GraphicHoursStated(data) = Hours(10)
    /\ result.monthlyPrice = Dollars(499)
    /\ Len(result.includes) = 1

\* the graphic total before any rounding: T, or 1.1 T when bilingual
GraphicUnrounded(d) ==
    LET h == GraphicHoursStated(d)
        extra == IF h > Hours(55) THEN h - Hours(55) ELSE 0
        T == 499 * PriceScale + 9 * extra * (PriceScale \div HourScale)
    IN IF d.bilingual THEN (11 * T) \div 10 ELSE T

\* round(0.8 x) of an amount x held times PriceScale, as whole dollars
RoundFourFifths(x) == (8 * x + 5 * PriceScale) \div (10 * PriceScale)

CountsRead(s) ==
    IF s = "graphic" THEN GraphicCountFields
    ELSE IF s = "video" THEN VideoCountFields
    ELSE IF s = "both" THEN CountFields
    ELSE {}

\* C14: every count the computation uses is a non-negative integer whatever
\* was typed ('-3' and '2.5' included), and a blank field counts as 0.
C14_CountsCoerced ==
    Called =>
        \A f \in CountsRead(data.serviceType) :
            LET used == NumberOr0(data[f])
            IN /\ used >= 0
               /\ used % CountScale = 0
               /\ data[f] = <<>> => used = 0

\* C15: estimatedHours of every returned result is non-negative.
C15_HoursNonNegative == Called => result.estimatedHours >= 0

\* C19: for serviceType both, monthlyPrice = S - round(0.2 S) with S the
\* graphic-only price plus the video-only price of the same fields, and
\* estimatedHours is the graphic hours plus the video hours.
C19_BothFromRoundedSubtotals ==
    (Called /\ data.serviceType = "both")
        => LET g == calculatePricing([data EXCEPT !.serviceType = "graphic"])
               v == calculatePricing([data EXCEPT !.serviceType = "video"])
               S == g.monthlyPrice + v.monthlyPrice
           IN /\ result.monthlyPrice = S - Dollars(RoundStated(S \div 5))
              /\ result.estimatedHours = g.estimatedHours + v.estimatedHours

C19_Witness ==
    /\ Called
    /\ data.serviceType = "both"
    /\ data.bilingual
    /\ GraphicHoursStated(data) > Hours(55)
    /\ VideoHoursStated(data) > Hours(55)
    /\ result.estimatedHours = GraphicHoursStated(data) + VideoHoursStated(data)

\* the sum of the counts typed into the fields fs
CountTotal(d, fs) ==
    LET RECURSIVE Sum(_)
        Sum(S) == IF S = {} THEN 0
                  ELSE LET f == CHOOSE x \in S : TRUE
                       IN NumberOr0(d[f]) + Sum(S \ {f})
    IN Sum(fs)

\* the one-entry list when cond holds, the empty list otherwise
OneIf(cond, e) == IF cond THEN <<e>> ELSE <<>>

\* the count, subtitles, scripting and stock entries, in this order
VideoEntriesStated(d, subtitlesText) ==
    LET n == CountTotal(d, VideoCountFields)
    IN OneIf(n > 0, EntryN("videos/month (mix of basic, mid-level, advanced)", n))
           \o OneIf(d.videoSubtitles, Entry(subtitlesText))
           \o OneIf(d.videoNeedsScripting, Entry("Concept, scripting & planning support"))
           \o OneIf(d.videoNeedsStock, Entry("Premium stock footage/music licensing"))

\* C21: includes is built in evaluation order from the current values.  For
\* video: the package, the 'n videos/month' entry iff n > 0 (with that n),
\* then subtitles, scripting and stock, each iff its flag is set.  For both:
\* the package, the bundle-discount entry, bilingual iff set, then the same
\* video entries.  The first element is always the package description.
C21_IncludesInEvaluationOrder ==
    Called =>
        /\ data.serviceType = "video"
              => result.includes
                   = <<Entry("Video Editing Package")>>
                         \o VideoEntriesStated(data, "Subtitles included")
        /\ data.serviceType = "both"
              => result.includes
                   = <<Entry("Complete Creative Package: Design + Video"),
                       Entry("Bundle discount applied (20%)")>>
                         \o OneIf(data.bilingual, Entry("Arabic & English designs included"))
                         \o VideoEntriesStated(data, "Subtitles included for videos")

C21_Witness ==
    /\ Called
    /\ data.serviceType = "both"
    /\ data.bilingual /\ data.videoSubtitles
    /\ data.videoNeedsScripting /\ data.videoNeedsStock
    /\ CountTotal(data, VideoCountFields) = 3 * CountScale
    /\ Len(result.includes) = 7
    /\ result.includes[4] = EntryN("videos/month (mix of basic, mid-level, advanced)",
                                   3 * CountScale)

\* the fields a graphic request is said not to depend on
GraphicIgnored ==
    VideoCountFields
        \cup {"videoSubtitles", "videoNeedsStock", "videoNeedsScripting", "otherDesignType"}
        \cup ContactFields

\* the fields a video request is said not to depend on
VideoIgnored == GraphicCountFields \cup {"bilingual"}

\* the request d with the fields fs taken from the request e
WithFieldsOf(d, fs, e) == [f \in DOMAIN d |-> IF f \in fs THEN e[f] ELSE d[f]]

\* requests to take the ignored fields from: nothing entered, everything
\* entered, and odd texts entered
OtherRequests ==
    {InitialData,
     [serviceType |-> "both",
      smDesigns |-> <<"7">>, banners |-> <<"7">>, brochures |-> <<"7">>,
      illustrations |-> <<"7">>, packaging |-> <<"7">>,
      otherDesignType |-> <<"l", "o", "g", "o">>,
      bilingual |-> TRUE,
      videoBasic |-> <<"7">>, videoMid |-> <<"7">>, videoAdvanced |-> <<"7">>,
      videoSubtitles |-> TRUE, videoNeedsStock |-> TRUE, videoNeedsScripting |-> TRUE,
      name |-> "Ann", company |-> "Acme", email |-> "ann@acme.com",
      phone |-> "+971 50 000 0000"],
     [InitialData EXCEPT !.brochures = <<"2", ".", "5">>, !.packaging = <<"-", "3">>,
                         !.videoMid = <<"2", ".", "5">>, !.videoAdvanced = <<"-", "3">>,
                         !.otherDesignType = <<" ">>, !.videoNeedsStock = TRUE]}

SameEstimate(r1, r2) ==
    /\ r1.monthlyPrice = r2.monthlyPrice
    /\ r1.estimatedHours = r2.estimatedHours
    /\ r1.includes = r2.includes

\* C26: a graphic request gets the same monthlyPrice, estimatedHours and
\* includes as any request that agrees with it on the five design counts and
\* bilingual, whatever its video counts, video flags, otherDesignType and
\* contact fields; a video request gets the same result as any request that
\* agrees with it on the three video counts and the three video flags,
\* whatever its design counts and bilingual flag.
C26_BranchesIndependent ==
    Called =>
        /\ data.serviceType = "graphic"
              => \A e \in OtherRequests :
                     SameEstimate(result, calculatePricing(WithFieldsOf(data, GraphicIgnored, e)))
        /\ data.serviceType = "video"
              => \A e \in OtherRequests :
                     SameEstimate(result, calculatePricing(WithFieldsOf(data, VideoIgnored, e)))

C26_Witness ==
    /\ Called
    /\ data.serviceType = "graphic"
    /\ data.videoAdvanced = <<"1", "2">>
    /\ data.videoNeedsStock /\ data.videoNeedsScripting /\ data.videoSubtitles
    /\ GraphicHoursStated(data) > Hours(55)
    /\ result.monthlyPrice > Dollars(499)

(***************************************************************************)
(* Claims about the wizard of the current calculator (Spec).               *)
(***************************************************************************)
\* the text has a character that is not a space
NonBlank(text) == \E i \in 1..Len(text) : text[i] # " "

DesignRequirementsStated(d) ==
    CountTotal(d, GraphicCountFields) > 0 \/ NonBlank(d.otherDesignType)

VideoRequirementsStated(d) == CountTotal(d, VideoCountFields) > 0

\* C16: at step 3 and in the result view the stored data passes the gate:
\* serviceType is graphic, video or both; for graphic the design total is > 0
\* or otherDesignType is not blank; for video the video total is > 0; for
\* both, both hold.  So the zero-valued result is never displayed.
C16_GatedBeforeLead ==
    (currentStep = 3 \/ showResults)
        => /\ data.serviceType \in {"graphic", "video", "both"}
           /\ data.serviceType \in {"graphic", "both"} => DesignRequirementsStated(data)
           /\ data.serviceType \in {"video", "both"} => VideoRequirementsStated(data)
           /\ Called => result # NewResult

C16_Witness ==
    /\ showResults
    /\ Called
    /\ data.serviceType = "both"
    /\ NonBlank(data.otherDesignType)
    /\ CountTotal(data, GraphicCountFields) = 0

\* C18: currentStep is always 1, 2 or 3; it changes only 1 -> 2 (a service
\* selected), 2 -> 1 and 3 -> 2 (Back), 2 -> 3 (Continue, only when
\* canProceedToLead holds); the result view is entered only from step 3, by
\* a lead capture with name, company and email given.
C18_LinearStateMachine ==
    /\ currentStep \in {1, 2, 3}
    /\ [][/\ currentStep' \in {1, 2, 3}
          /\ currentStep' # currentStep =>
                \/ /\ currentStep = 1 /\ currentStep' = 2
                   /\ data'.serviceType \in {"graphic", "video", "both"}
                \/ currentStep = 2 /\ currentStep' = 1
                \/ currentStep = 3 /\ currentStep' = 2
                \/ currentStep = 2 /\ currentStep' = 3 /\ canProceedToLead(data)
          /\ showResults' # showResults =>
                /\ showResults'
                /\ currentStep = 3 /\ currentStep' = 3
                /\ data.name # "" /\ data.company # "" /\ data.email # ""]_vars

C18_Witness ==
    /\ showResults
    /\ currentStep = 3
    /\ progress = FullProgress
    /\ data.serviceType = "video"
    /\ data.phone = ""

\* a required field of the lead form is empty
LeadIncomplete(d) == d.name = "" \/ d.company = "" \/ d.email = ""

\* C23: a submit of the lead form at step 3 while name, company or email is
\* empty leaves the wizard state unchanged (showResults false, currentStep 3,
\* progress and form data as they were); showResults becomes true only by a
\* submit with name, company and email all non-empty.
C23_RefusedSubmitChangesNothing ==
    [][/\ (handleLeadCapture /\ LeadIncomplete(data))
              => /\ ~showResults' /\ currentStep' = 3
                 /\ progress' = progress /\ data' = data
       /\ (showResults' /\ ~showResults)
              => handleLeadCapture /\ ~LeadIncomplete(data)]_vars

C23_Witness ==
    /\ currentStep = 3
    /\ ~showResults
    /\ progress = ProgressOf(3)
    /\ data.name # "" /\ data.company # "" /\ data.email = ""
    /\ data.phone # ""

\* C24: the result view is absorbing: once showResults is true it stays true,
\* and no action changes the form data or currentStep any more, so the
\* monthlyPrice and includes displayed stay the same.
C24_ResultViewAbsorbing ==
    [][showResults
          => /\ showResults'
             /\ data' = data
             /\ currentStep' = currentStep
             /\ Called => /\ result'.monthlyPrice = result.monthlyPrice
                          /\ result'.includes = result.includes]_vars

C24_Witness ==
    /\ showResults
    /\ Len(calls) = 2
    /\ calls[2].returned = calls[1].returned
    /\ result = calls[2].returned
    /\ result.monthlyPrice >= Dollars(499)
    /\ Len(result.includes) >= 2

\* C25: handleServiceSelect changes only serviceType and currentStep (to 2):
\* every count, flag, otherDesignType and contact field keeps its value; Back
\* of step 2 keeps the whole form; so answers given under one service type
\* survive going back and choosing another, and serviceType, once chosen, is
\* never empty again.
C25_ServiceSelectKeepsAnswers ==
    [][/\ (\E service \in {"graphic", "video", "both"} : handleServiceSelect(service))
              => /\ currentStep' = 2
                 /\ data'.serviceType \in {"graphic", "video", "both"}
                 /\ \A f \in EditableFields : data'[f] = data[f]
                 /\ showResults' = showResults
       /\ BackToServices => data' = data
       /\ data.serviceType # "" => data'.serviceType # ""]_vars

C25_Witness ==
    /\ currentStep = 2
    /\ data.serviceType = "video"
    /\ data.smDesigns = <<"1">>
    /\ data.bilingual
    /\ VideoCountsZero(data)

\* the entries of includes about subtitles
SubtitleEntries == {Entry("Subtitles included"), Entry("Subtitles included for videos")}

\* C27: in every reachable state of the wizard videoSubtitles is false (it
\* starts false and no control sets it), so no includes list displayed has
\* 'Subtitles included' or 'Subtitles included for videos'.
C27_SubtitlesNeverSet ==
    /\ ~data.videoSubtitles
    /\ Called => \A i \in 1..Len(result.includes) : result.includes[i] \notin SubtitleEntries

C27_Witness ==
    /\ showResults
    /\ Called
    /\ data.serviceType = "video"
    /\ data.videoNeedsScripting
    /\ result.includes
         = <<Entry("Video Editing Package"),
             EntryN("videos/month (mix of basic, mid-level, advanced)", CountScale),
             Entry("Concept, scripting & planning support")>>

(***************************************************************************)
(* SpecBandWizard: the wizard of the reduced-bundle-base variant.          *)
(***************************************************************************)
\* the answers of step 2 that are a single value
BandScalarFields ==
    {"designPieces", "customDesignType", "bilingual", "videoCount", "videoDuration",
     "customVideoType", "editingQuality", "footageReady", "needCaptions", "needStock"}

\* the number of answers of step 2 that d holds
AnswersGiven(d) ==
    Cardinality({f \in BandScalarFields : d[f] # InitialBandData[f]})
        + Len(d.designTypes) + Len(d.videoTypes)

canProceedToLeadBundle(d) ==
    IF d.serviceType \in {"graphic", "both"}
    THEN d.designPieces # <<>> /\ Len(d.designTypes) > 0
    ELSE IF d.serviceType = "video"
    THEN /\ d.videoCount # <<>> /\ d.videoDuration # "" /\ Len(d.videoTypes) > 0
         /\ d.editingQuality # "" /\ d.footageReady # ""
    ELSE FALSE

InitBandWizard ==
    /\ bandData = InitialBandData
    /\ bandResult = NoResult
    /\ currentStep = 1
    /\ showResults = FALSE
    /\ progress = 0
    /\ calls = <<>>
    /\ data = InitialData
    /\ result = NoResult

\* a change of the form data alone, within the answers the model follows
SetBandData(d) ==
    /\ AnswersGiven(d) <= MaxBandAnswers
    /\ bandData' = d
    /\ UNCHANGED <<currentStep, showResults, progress, bandResult, data, result, calls>>

handleServiceSelectBundle(service) ==
    /\ ~showResults
    /\ currentStep = 1
    /\ bandData' = [bandData EXCEPT !.serviceType = service]
    /\ SetCurrentStep(2)
    /\ UNCHANGED <<showResults, bandResult, data, result, calls>>

\* currentStep === 2 && (serviceType === 'graphic' || serviceType === 'both')
DesignStepShown ==
    ~showResults /\ currentStep = 2 /\ bandData.serviceType \in {"graphic", "both"}

\* currentStep === 2 && serviceType === 'video'
VideoStepShown ==
    ~showResults /\ currentStep = 2 /\ bandData.serviceType = "video"

ClickDesignPieces(option) ==
    /\ DesignStepShown
    /\ SetBandData([bandData EXCEPT !.designPieces = option])

CheckDesignType(option) ==
    /\ DesignStepShown
    /\ SetBandData(handleDesignTypeToggle(bandData, option))

ChangeCustomDesignType(v) ==
    /\ DesignStepShown
    /\ Includes(bandData.designTypes, "Other")
    /\ SetBandData([bandData EXCEPT !.customDesignType = v])

CheckBilingual(checked) ==
    /\ DesignStepShown
    /\ SetBandData([bandData EXCEPT !.bilingual = checked])

ClickVideoCount(option) ==
    /\ VideoStepShown
    /\ SetBandData([bandData EXCEPT !.videoCount = option])

ClickVideoDuration(option) ==
    /\ VideoStepShown
    /\ SetBandData([bandData EXCEPT !.videoDuration = option])

ClickEditingQuality(q) ==
    /\ VideoStepShown
    /\ SetBandData([bandData EXCEPT !.editingQuality = q])

CheckVideoType(option) ==
    /\ VideoStepShown
    /\ SetBandData(handleVideoTypeToggle(bandData, option))

ChangeCustomVideoType(v) ==
    /\ VideoStepShown
    /\ Includes(bandData.videoTypes, "Other")
    /\ SetBandData([bandData EXCEPT !.customVideoType = v])

ClickFootageReady(a) ==
    /\ VideoStepShown
    /\ SetBandData([bandData EXCEPT !.footageReady = a])

CheckNeedCaptions(checked) ==
    /\ VideoStepShown
    /\ SetBandData([bandData EXCEPT !.needCaptions = checked])

CheckNeedStock(checked) ==
    /\ VideoStepShown
    /\ SetBandData([bandData EXCEPT !.needStock = checked])

\* Back of either section of step 2
BackToServicesBundle ==
    /\ DesignStepShown \/ VideoStepShown
    /\ SetCurrentStep(1)
    /\ UNCHANGED <<bandData, showResults, bandResult, data, result, calls>>

\* Continue of either section of step 2, disabled unless canProceedToLead()
ContinueBundle ==
    /\ DesignStepShown \/ VideoStepShown
    /\ canProceedToLeadBundle(bandData)
    /\ SetCurrentStep(3)
    /\ UNCHANGED <<bandData, showResults, bandResult, data, result, calls>>

ChangeContactBundle(f, v) ==
    /\ ~showResults
    /\ currentStep = 3
    /\ SetBandData([bandData EXCEPT ![f] = v])

BackToDetailsBundle ==
    /\ ~showResults
    /\ currentStep = 3
    /\ SetCurrentStep(2)
    /\ UNCHANGED <<bandData, showResults, bandResult, data, result, calls>>

LeadCaptureRefusedBundle ==
    /\ bandData.name = "" \/ bandData.company = "" \/ bandData.email = ""
    /\ UNCHANGED vars

LeadCaptureAcceptedBundle ==
    /\ ~(bandData.name = "" \/ bandData.company = "" \/ bandData.email = "")
    /\ progress' = FullProgress
    /\ showResults' = TRUE
    /\ UNCHANGED <<bandData, currentStep, bandResult, data, result, calls>>

handleLeadCaptureBundle ==
    /\ ~showResults
    /\ currentStep = 3
    /\ (LeadCaptureRefusedBundle \/ LeadCaptureAcceptedBundle)

\* a render of the result view: const pricing = calculatePricing()
RenderResultsBundle ==
    /\ showResults
    /\ bandResult' = calculatePricingBundle(bandData)
    /\ UNCHANGED <<bandData, currentStep, showResults, progress, data, result, calls>>

NextBandWizard ==
    \/ \E service \in {"graphic", "video", "both"} : handleServiceSelectBundle(service)
    \/ \E option \in DesignBands : ClickDesignPieces(option)
    \/ \E i \in 1..Len(designTypeOptions) : CheckDesignType(designTypeOptions[i])
    \/ \E v \in {"", "Logo"} : ChangeCustomDesignType(v)
    \/ \E checked \in BOOLEAN : CheckBilingual(checked)
    \/ \E option \in VideoBands : ClickVideoCount(option)
    \/ \E option \in VideoDurations : ClickVideoDuration(option)
    \/ \E q \in {"basic", "premium"} : ClickEditingQuality(q)
    \/ \E i \in 1..Len(videoTypeOptions) : CheckVideoType(videoTypeOptions[i])
    \/ \E v \in {"", "Vlog"} : ChangeCustomVideoType(v)
    \/ \E a \in {"ready", "need-help"} : ClickFootageReady(a)
    \/ \E checked \in BOOLEAN : CheckNeedCaptions(checked)
    \/ \E checked \in BOOLEAN : CheckNeedStock(checked)
    \/ BackToServicesBundle
    \/ ContinueBundle
    \/ \E f \in ContactFields : \E v \in FieldInputs(f) : ChangeContactBundle(f, v)
    \/ BackToDetailsBundle
    \/ handleLeadCaptureBundle
    \/ RenderResultsBundle

SpecBandWizard == InitBandWizard /\ [][NextBandWizard]_vars

\* C17: whenever results are shown with serviceType both, every field of the
\* chosen category is populated: besides designPieces and designTypes also
\* videoCount, videoDuration, videoTypes, editingQuality and footageReady.
C17_BothFullyPopulated ==
    (showResults /\ bandData.serviceType = "both")
        => /\ bandData.designPieces # <<>>
           /\ Len(bandData.designTypes) > 0
           /\ bandData.videoCount # <<>>
           /\ bandData.videoDuration # ""
           /\ Len(bandData.videoTypes) > 0
           /\ bandData.editingQuality # ""
           /\ bandData.footageReady # ""

(***************************************************************************)
(* The banded variants with a design-hours question: src/unnamed/part_000  *)
(* (additive variant) and the first component of src/unnamed/part_001.     *)
(* Their results have no estimatedHours.                                   *)
(***************************************************************************)
\* the values of the design-hours buttons: '2.5', '3-4' (with U+2013), '5+'
DesignHoursOptions ==
    {<<"2", ".", "5">>, <<"3", EnDash, "4">>, <<"5", "+">>}

\* useState<PricingData>({...}) of the components that ask for design hours
InitialHoursData ==
    [serviceType |-> "",
     designPieces |-> <<>>, designHours |-> <<>>, designTypes |-> <<>>,
     customDesignType |-> "", bilingual |-> FALSE,
     videoCount |-> <<>>, videoDuration |-> "", videoTypes |-> <<>>,
     customVideoType |-> "", editingQuality |-> "", footageReady |-> "",
     needCaptions |-> FALSE, needStock |-> FALSE,
     name |-> "", company |-> "", email |-> "", phone |-> ""]

\* let result: PricingResult = {...}
NewResultNoHours ==
    [monthlyPrice |-> 0,
     breakdown |-> [basePrice |-> 0, volumeAdjustment |-> 0, complexityAdjustment |-> 0,
                    bilingualBonus |-> 0, addOns |-> 0],
     includes |-> <<>>]

\* text.includes(part)
StringIncludes(text, part) ==
    \E i \in 1..(Len(text) - Len(part) + 1) : SubSeq(text, i, i + Len(part) - 1) = part

\* the characters of a video-duration option
DurationChars(option) ==
    CASE option = "< 60 sec" -> <<"<", " ", "6", "0", " ", "s", "e", "c">>
      [] option = "1-3 mins" -> <<"1", EnDash, "3", " ", "m", "i", "n", "s">>
      [] option = "3-5 mins" -> <<"3", EnDash, "5", " ", "m", "i", "n", "s">>
      [] option = "5+ mins" -> <<"5", "+", " ", "m", "i", "n", "s">>
      [] OTHER -> <<>>

\* the value parseInt gives a text with no leading digit
NaN == -1

\* x > k of JavaScript: false when x is NaN
Exceeds(x, k) == x # NaN /\ x > k

\* parseInt(text.split(U+2013)[1] || text.replace('+', '')): no '0' to fall back on
BandCountOrNaN(s) ==
    LET second == SplitSecond(s)
        text == IF second # <<>> THEN second ELSE RemoveFirstPlus(s)
    IN IF text = <<>> \/ ~IsDigit(text[1]) THEN NaN ELSE ParseInt(text)

\* result.breakdown.basePrice = dollars
SetBase(r, dollars) == [r EXCEPT !.breakdown.basePrice = Dollars(dollars)]

(***************************************************************************)
(* Additive variant: src/unnamed/part_000.                                 *)
(***************************************************************************)
\* if (cond) result.breakdown.component += dollars
AddWhen(r, cond, component, dollars) == IF cond THEN AddTo(r, component, dollars) ELSE r

\* if (cond) includes[i] = e
PutWhen(includes, cond, i, e) == IF cond THEN [includes EXCEPT ![i] = e] ELSE includes

\* if (cond) includes.push(e)
PushWhen(includes, cond, e) == IF cond THEN Append(includes, e) ELSE includes

\* if (data.serviceType === 'graphic' || data.serviceType === 'both') {...}
GraphicBlockAdditive(r0, d) ==
    LET pieceCount == BandCountOrNaN(d.designPieces)
        over == Exceeds(pieceCount, 30)
        threeToFour == StringIncludes(d.designHours, <<"3", EnDash, "4">>)
        fivePlus == ~threeToFour /\ StringIncludes(d.designHours, <<"5", "+">>)
        brochures == Includes(d.designTypes, "Brochures / Company Profiles")
        r1 == AddWhen(r0, over, "volumeAdjustment", CeilDiv(pieceCount - 30, 10) * 150)
        r2 == AddWhen(r1, threeToFour, "complexityAdjustment", 200)
        r3 == AddWhen(r2, fivePlus, "complexityAdjustment", 400)
        r4 == AddWhen(r3, brochures, "complexityAdjustment", 300)
        r5 == AddWhen(r4, d.bilingual, "bilingualBonus", 100)
        r6 == AddTo(r5, "basePrice", 499)
        inc0 == <<Entry("2.5 hours design work/day"),
                  Entry("Up to 30 social-style designs/month")>>
        inc1 == PutWhen(inc0, over, 2, EntryN("Up to designs/month", pieceCount))
        inc2 == PutWhen(inc1, threeToFour, 1, Entry("3-4 hours design work/day"))
        inc3 == PutWhen(inc2, fivePlus, 1, Entry("5+ hours design work/day"))
        inc4 == PushWhen(inc3, brochures, Entry("Complex brochures & company profiles"))
        inc5 == PushWhen(inc4, d.bilingual, Entry("Arabic & English designs"))
    IN [r6 EXCEPT !.includes = @ \o inc5]

\* if (data.serviceType === 'video' || data.serviceType === 'both') {...}
VideoBlockAdditive(r0, d) ==
    LET videoCount == BandCountOrNaN(d.videoCount)
        over == Exceeds(videoCount, 10)
        premium == d.editingQuality = "premium"
        needHelp == d.footageReady = "need-help"
        duration == DurationChars(d.videoDuration)
        longForm == \/ StringIncludes(duration, <<"3", EnDash, "5">>)
                    \/ StringIncludes(duration, <<"5", "+">>)
        r1 == AddWhen(r0, over, "volumeAdjustment", CeilDiv(videoCount - 10, 5) * 200)
        r2 == AddWhen(r1, premium, "complexityAdjustment", 400)
        r3 == AddWhen(r2, needHelp, "addOns", 200)
        r4 == AddWhen(r3, d.needCaptions, "addOns", 50)
        r5 == AddWhen(r4, d.needStock, "addOns", 100)
        r6 == AddWhen(r5, longForm, "complexityAdjustment", 200)
        r7 == AddTo(r6, "basePrice", 699)
        inc0 == <<Entry("2.5 hours editing/day"), Entry("Up to 10 reels/month")>>
        inc1 == PutWhen(inc0, over, 2, EntryN("Up to videos/month", videoCount))
        inc2 == PushWhen(inc1, premium, Entry("Premium editing with motion graphics"))
        inc3 == PushWhen(inc2, ~premium, Entry("Basic editing with subtitles & effects"))
        inc4 == PushWhen(inc3, needHelp, Entry("Script & footage creation support"))
        inc5 == PushWhen(inc4, d.needCaptions, Entry("Professional captions/subtitles"))
        inc6 == PushWhen(inc5, d.needStock, Entry("Stock footage & music library"))
        inc7 == PushWhen(inc6, longForm, Entry("Long-form video editing"))
    IN [r7 EXCEPT !.includes = @ \o inc7]

\* the block applied when the service type is one of those it is written for
BlockIf(cond, r, applied) == IF cond THEN applied ELSE r

\* the graphic block, then the video block
BlocksAdditive(r0, d) ==
    BlockIf(d.serviceType \in {"video", "both"},
            BlockIf(d.serviceType \in {"graphic", "both"}, r0, GraphicBlockAdditive(r0, d)),
            VideoBlockAdditive(
                BlockIf(d.serviceType \in {"graphic", "both"}, r0, GraphicBlockAdditive(r0, d)), d))

\* a fifth taken off the sum
TotalledLessFifth(r) == [r EXCEPT !.monthlyPrice = (SumBreakdown(r) * 4) \div 5]

\* a fifth taken off the sum when both services are chosen
calculatePricingAdditiveDiscounted(d) ==
    IF d.serviceType = "both" THEN TotalledLessFifth(BlocksAdditive(NewResultNoHours, d))
    ELSE Totalled(BlocksAdditive(NewResultNoHours, d))

calculatePricingAdditive(d) == Totalled(BlocksAdditive(NewResultNoHours, d))

(***************************************************************************)
(* First component of src/unnamed/part_001.                                *)
(***************************************************************************)
\* if (data.serviceType === 'both') {...}
BothBranchCombo(r0, d) ==
    LET r1 == SetBase(r0, 959)
        r2 == Push(r1, Entry("POWER COMBO: Design + Video Package"))
        r3 == Push(r2, Entry("4+ hours combined creative work/day"))
        r4 == Push(r3, Entry("Up to 25 designs/month"))
        r5 == Push(r4, Entry("Up to 8 videos/month"))
        designCount == BandCount(d.designPieces)
        videoCount == BandCount(d.videoCount)
        r6 == VolumeIf(r5, designCount, 25, 10, 120)
        r7 == VolumeIf(r6, videoCount, 8, 4, 160)
        r8 == AddIf(r7, d.editingQuality = "premium", "complexityAdjustment", 320,
                    "Premium video editing with motion graphics")
        r9 == AddIf(r8, Includes(d.designTypes, "Brochures / Company Profiles"),
                    "complexityAdjustment", 240, "Complex brochures & company profiles")
        r10 == AddIf(r9, d.bilingual, "bilingualBonus", 80, "Arabic & English content")
        r11 == AddIf(r10, d.footageReady = "need-help", "addOns", 160,
                     "Script & footage creation support")
        r12 == AddIf(r11, d.needCaptions, "addOns", 40, "Professional captions/subtitles")
    IN AddIf(r12, d.needStock, "addOns", 80, "Stock footage & music library")

\* else if (data.serviceType === 'graphic') {...}
GraphicBranchCombo(r0, d) ==
    LET r1 == SetBase(r0, 599)
        r2 == Push(r1, Entry("Design Domination Package"))
        r3 == Push(r2, Entry("3+ hours design work/day"))
        r4 == Push(r3, Entry("Up to 30 social-style designs/month"))
        pieceCount == BandCount(d.designPieces)
        r5 == VolumeIf(r4, pieceCount, 30, 10, 150)
        r6 == AddIf(r5, StringIncludes(d.designHours, <<"5", "+">>),
                    "complexityAdjustment", 300, "Premium 5+ hours/day commitment")
        r7 == AddIf(r6, Includes(d.designTypes, "Brochures / Company Profiles"),
                    "complexityAdjustment", 300, "Complex brochures & company profiles")
    IN AddIf(r7, d.bilingual, "bilingualBonus", 100, "Arabic & English designs")

\* else if (data.serviceType === 'video') {...}
VideoBranchCombo(r0, d) ==
    LET r1 == SetBase(r0, 799)
        r2 == Push(r1, Entry("Video Victory Package"))
        r3 == Push(r2, Entry("3+ hours editing/day"))
        r4 == Push(r3, Entry("Up to 10 videos/month"))
        videoCount == BandCount(d.videoCount)
        r5 == VolumeIf(r4, videoCount, 10, 5, 200)
        r6 == AddIf(r5, d.editingQuality = "premium", "complexityAdjustment", 400,
                    "Premium editing with motion graphics")
        r7 == AddIf(r6, d.footageReady = "need-help", "addOns", 200,
                    "Script & footage creation support")
        r8 == AddIf(r7, d.needCaptions, "addOns", 50, "Professional captions/subtitles")
    IN AddIf(r8, d.needStock, "addOns", 100, "Stock footage & music library")

\* the branch of the service type chosen, none when no service is chosen
BranchCombo(r0, d) ==
    IF d.serviceType = "both" THEN BothBranchCombo(r0, d)
    ELSE IF d.serviceType = "graphic" THEN GraphicBranchCombo(r0, d)
    ELSE IF d.serviceType = "video" THEN VideoBranchCombo(r0, d)
    ELSE r0

calculatePricingCombo(d) == Totalled(BranchCombo(NewResultNoHours, d))

(***************************************************************************)
(* SpecBanded: calculatePricing of each of the three banded components     *)
(* applied to the answers given.                                           *)
(***************************************************************************)
\* the form data after one more answer, the design-hours buttons included
AnsweredHours(d) ==
    Answered(d) \cup {[d EXCEPT !.designHours = o] : o \in DesignHoursOptions}

\* the form data after at most k answers
RECURSIVE AnsweredHoursUpTo(_)
AnsweredHoursUpTo(k) ==
    IF k = 0 THEN {InitialHoursData}
    ELSE LET prev == AnsweredHoursUpTo(k - 1)
         IN prev \cup UNION {AnsweredHours(d) : d \in prev}

InitBanded ==
    /\ \E d \in AnsweredHoursUpTo(MaxAnswers - 1), s \in ServiceTypes :
           \E e \in AnsweredHours(d) : bandData = [e EXCEPT !.serviceType = s]
    /\ bandResult = NoResult
    /\ calls = <<>>
    /\ data = InitialData
    /\ result = NoResult
    /\ currentStep = 1
    /\ showResults = FALSE
    /\ progress = 0

\* const pricing = calculatePricing() of the named component, logged
CalculateBanded(component, pricing) ==
    /\ bandResult' = pricing
    /\ calls' = <<[component |-> component, returned |-> pricing]>>
    /\ UNCHANGED <<bandData, data, result, currentStep, showResults, progress>>

CalculateAdditive == CalculateBanded("part_000", calculatePricingAdditive(bandData))

CalculateCombo == CalculateBanded("part_001 first", calculatePricingCombo(bandData))

\* the second component of part_001 has no design-hours question and reads none
CalculateReduced == CalculateBanded("part_001 second", calculatePricingBundle(bandData))

NextBanded == CalculateAdditive \/ CalculateCombo \/ CalculateReduced

SpecBanded == InitBanded /\ [][NextBanded]_vars

\* the component whose calculatePricing returned bandResult
CalledOf(component) == calls # <<>> /\ calls[1].component = component

(***************************************************************************)
(* Claims about the banded components (SpecBanded).                        *)
(***************************************************************************)
\* C22: in each banded component, for every serviceType and every combination
\* of answers, monthlyPrice equals the sum of the five breakdown components of
\* the same result, and every component is a non-negative integer.
C22_BandedBreakdownSums ==
    BandCalled =>
        /\ bandResult.monthlyPrice = BreakdownSum(bandResult)
        /\ \A c \in DOMAIN bandResult.breakdown :
               bandResult.breakdown[c] >= 0 /\ IsInteger(bandResult.breakdown[c])

C22_Witness ==
    /\ CalledOf("part_000")
    /\ bandData.serviceType = "both"
    /\ bandResult.breakdown.basePrice = Dollars(1198)
    /\ bandResult.breakdown.volumeAdjustment = Dollars(200)
    /\ bandResult.breakdown.complexityAdjustment = Dollars(400)
    /\ bandResult.breakdown.addOns = Dollars(100)
    /\ bandResult.monthlyPrice = Dollars(1898)

\* the number of pieces each design band is said to stand for
PiecesStated(band) ==
    CASE band = <<"5", EnDash, "1", "0">> -> 10
      [] band = <<"1", "1", EnDash, "2", "0">> -> 20
      [] band = <<"2", "1", EnDash, "3", "0">> -> 30
      [] band = <<"3", "0", "+">> -> 30
      [] OTHER -> NaN

\* C28: the design-piece answer of a banded component is unanswered or one of
\* the bands '5-10', '11-20', '21-30', '30+', which parse to 10, 20, 30 and
\* 30; so for serviceType graphic pieceCount > 30 never holds and
\* volumeAdjustment is 0 in every result.
C28_GraphicNeverOverThirty ==
    /\ bandData.designPieces # <<>>
          => /\ PiecesStated(bandData.designPieces) # NaN
             /\ BandCount(bandData.designPieces) = PiecesStated(bandData.designPieces)
             /\ BandCountOrNaN(bandData.designPieces) = PiecesStated(bandData.designPieces)
    /\ (BandCalled /\ bandData.serviceType = "graphic")
          => /\ ~(BandCount(bandData.designPieces) > 30)
             /\ ~Exceeds(BandCountOrNaN(bandData.designPieces), 30)
             /\ bandResult.breakdown.volumeAdjustment = 0

C28_Witness ==
    /\ CalledOf("part_001 second")
    /\ bandData.serviceType = "graphic"
    /\ bandData.designPieces = <<"3", "0", "+">>
    /\ bandData.bilingual
    /\ bandResult.breakdown.volumeAdjustment = 0
    /\ bandResult.monthlyPrice = Dollars(574)

\* C29: in the additive variant the monthlyPrice for serviceType both is
\* exactly the graphic-only monthlyPrice plus the video-only monthlyPrice of
\* the same answers (no bundle discount), and its includes is the graphic
\* includes followed by the video includes.
C29_AdditiveBothIsSum ==
    (CalledOf("part_000") /\ bandData.serviceType = "both")
        => LET g == calculatePricingAdditive([bandData EXCEPT !.serviceType = "graphic"])
               v == calculatePricingAdditive([bandData EXCEPT !.serviceType = "video"])
           IN /\ bandResult.monthlyPrice = g.monthlyPrice + v.monthlyPrice
              /\ bandResult.includes = g.includes \o v.includes

C29_Witness ==
    /\ CalledOf("part_000")
    /\ bandData.serviceType = "both"
    /\ bandData.bilingual
    /\ bandData.editingQuality = "premium"
    /\ bandData.designHours = <<"5", "+">>
    /\ bandResult.monthlyPrice = Dollars(499 + 400 + 100 + 699 + 400)
    /\ Len(bandResult.includes) = 6

====
